---- MODULE Spec2Model ----
(***************************************************************************)
(* Model of the RAG backend of study-sidekick: the streaming chat relay    *)
(* (backend/llm.py, backend/routes/chat.py), the /generate relay           *)
(* (backend/routes/llm.py), the lazy embedding provider                    *)
(* (backend/embeddings.py), the retrieval handlers (backend/routes/rag.py, *)
(* backend/routes/chat.py), the chunker and the text cleaner               *)
(* (backend/text_processing.py), and the document handlers over the        *)
(* vector store (backend/routes/documents.py, backend/vectordb.py).        *)
(***************************************************************************)
EXTENDS Integers, Sequences, FiniteSets, TLC

\* Longest inference-server response body, in lines.
MaxLines == 3
\* Longest conversation of a chat request, in messages.
MaxMsgs == 2
\* Most runs of equal characters in a text handed to the chunker.
MaxRuns == 3
\* Longest run of equal characters in such a text.
MaxRun == 4
\* Largest chunk_size the chunker is called with.
MaxSize == 6
\* Length of the long documents sent to the document handlers.
DocLen == 2400
\* Most chunks the store holds.
MaxStored == 4
\* The values the clock is read at are 1..MaxClock.
MaxClock == 2
\* Most requests to the document handlers in one run.
MaxServed == 3
\* Longest model identifier, in characters.
MaxName == 3
\* Longest list of documents handed to encode_documents.
MaxDocs == 2
\* Most runs of equal characters in a text handed to clean_text.
MaxPieces == 5

VARIABLES
    upstream,     \* relay: the lines of the inference server's response body
    linePos,      \* relay: number of lines read from the body so far
    relay_pc,     \* relay: position of chat_with_rag.generate()
    events,       \* relay: the events the client has received
    req_stream,   \* relay: request.stream
    fault,        \* relay: what the transport did ("none" when nothing failed)
    conn,         \* relay: the connection to the inference server
    embedding_model, \* the global EmbeddingModel instance (its fields)
    collection,   \* the chunks stored in the vector store's collection
    pc,           \* per request: where its handler stands
    kind,         \* per request: which endpoint it calls
    args,         \* per request: the request body, once its handler runs
    firstUse,     \* requests issued before any load began, and their loads
    last,         \* the response, when the latest step returned one
    text,         \* chunker: the text of the call
    chunk_size,   \* chunker: maximum chunk size in characters
    chunk_overlap, \* chunker: overlap in characters
    start,        \* chunker: where the next window starts
    chunks,       \* chunker: the chunks appended so far
    windows,      \* chunker: the windows [start, end) cut so far
    split_pc,     \* chunker: position of split_text_into_chunks
    served,       \* documents: number of requests the handlers have served
    call,         \* a call of a function of its arguments only: its arguments
    result        \* what that call returned, once it has returned

relayVars == <<upstream, linePos, relay_pc, events, req_stream, fault, conn>>

serverVars == <<embedding_model, collection, pc, kind, args, firstUse, last>>

chunkerVars ==
    <<text, chunk_size, chunk_overlap, start, chunks, windows, split_pc>>

ingestVars == <<served>>

pureVars == <<call, result>>

vars == <<upstream, linePos, relay_pc, events, req_stream, fault, conn,
          embedding_model, collection, pc, kind, args, firstUse, last,
          text, chunk_size, chunk_overlap, start, chunks, windows, split_pc,
          served, call, result>>

(***************************************************************************)
(* The inference server's wire format.  A line either starts with          *)
(* "data: " or not; the data is the literal [DONE], text that is not JSON, *)
(* or a JSON value, described by the parts of it that the decoder reads.   *)
(***************************************************************************)
Payload(form, top, choices, choice0, delta, content, txt) ==
    [form |-> form, top |-> top, choices |-> choices, choice0 |-> choice0,
     delta |-> delta, content |-> content, text |-> txt]

\* data: {"choices":[{"delta":{"content": t}}]}
DeltaData(t) == Payload("json", "dict", "one", "dict", "dict", "str", t)
\* data: [DONE]
DoneData == Payload("done", "-", "-", "-", "-", "-", "")
\* data: <text that json.loads rejects>
GarbageData == Payload("garbage", "-", "-", "-", "-", "-", "")
\* data: {"timings": {}}          (a JSON object without "choices")
NoChoicesData == Payload("json", "dict", "absent", "-", "-", "-", "")
\* data: {"choices":[{"finish_reason":"stop"}]}   (no "delta")
NoDeltaData == Payload("json", "dict", "one", "dict", "absent", "-", "")
\* data: {"choices":[{"delta":{"role":"assistant"}}]}   (no "content")
NoContentData == Payload("json", "dict", "one", "dict", "dict", "absent", "")
\* data: [1]                      (JSON, but not an object)
ArrayData == Payload("json", "list", "-", "-", "-", "-", "")
\* data: {"choices":[{"delta": null}]}
NullDeltaData == Payload("json", "dict", "one", "dict", "null", "-", "")

DeltaTexts == {"", "a", "b"}

Line(prefixed, data) == [prefixed |-> prefixed, data |-> data]

Lines ==
    { Line(TRUE, DeltaData(t)) : t \in DeltaTexts }
      \cup { Line(TRUE, d) : d \in {DoneData, GarbageData, NoChoicesData,
                                    NoDeltaData, NoContentData, ArrayData,
                                    NullDeltaData} }
      \cup { Line(FALSE, GarbageData) }

Bodies == UNION { [1..n -> Lines] : n \in 0..MaxLines }

(***************************************************************************)
(* Events of the client's stream: "data: <chunk>\n\n".                     *)
(***************************************************************************)
ContentEvent(t) == [type |-> "content", text |-> t]
RawEvent == [type |-> "raw", text |-> "body"]
DoneEvent == [type |-> "done", text |-> ""]
ErrorEvent == [type |-> "error", text |-> ""]

IsTerminal(e) == e.type \in {"done", "error"}

(***************************************************************************)
(* LLMClient.chat_completion, the body of the async for: what one line     *)
(* makes the generator do.                                                 *)
(*   "ignore": not a data line;  "break": [DONE];  "skip": nothing to      *)
(*   yield, or json.JSONDecodeError;  "yield": one chunk;  "raise": an     *)
(*   exception that is not a JSONDecodeError leaves the generator.         *)
(***************************************************************************)
LineYieldsAfterDone(line) ==
    IF ~line.prefixed THEN "ignore"
    ELSE IF line.data.form = "done" THEN "skip"
    ELSE IF line.data.form = "garbage" THEN "skip"
    ELSE IF line.data.top # "dict" THEN "raise"
    ELSE IF line.data.choices # "one" THEN "skip"
    ELSE IF line.data.choice0 # "dict" THEN "raise"
    ELSE IF line.data.delta = "null" THEN "raise"
    ELSE IF line.data.delta = "absent" THEN "skip"
    ELSE IF line.data.content # "str" \/ line.data.text = "" THEN "skip"
    ELSE "yield"

LineAction(line) ==
    IF ~line.prefixed THEN "ignore"                       \* line.startswith("data: ")
    ELSE IF line.data.form = "done" THEN "break"          \* data == "[DONE]"
    ELSE IF line.data.form = "garbage" THEN "skip"        \* json.JSONDecodeError: continue
    ELSE IF line.data.top # "dict" THEN "raise"           \* parsed.get: AttributeError
    ELSE IF line.data.choices # "one" THEN "skip"         \* if choices:
    ELSE IF line.data.choice0 # "dict" THEN "raise"       \* choices[0].get
    ELSE IF line.data.delta = "null" THEN "raise"         \* delta.get on None
    ELSE IF line.data.delta = "absent" THEN "skip"        \* {}.get("content", "")
    ELSE IF line.data.content # "str" \/ line.data.text = "" THEN "skip"  \* if content:
    ELSE "yield"

(***************************************************************************)
(* chat_with_rag.generate() over LLMClient.chat_completion.                *)
(***************************************************************************)
RelayInit ==
    /\ req_stream \in BOOLEAN
    /\ upstream \in (IF req_stream THEN Bodies ELSE {<<>>})
    /\ linePos = 0
    /\ relay_pc = "start"
    /\ events = <<>>
    /\ fault = "none"
    /\ conn = "none"

\* client.stream(...) / client.post(...) fails: connection refused or timeout.
ConnectFails ==
    /\ relay_pc = "start"
    /\ \E f \in {"refused", "timeout"} : fault' = f
    /\ relay_pc' = "raised"
    /\ UNCHANGED <<upstream, linePos, events, req_stream, conn>>
    /\ UNCHANGED <<serverVars, chunkerVars, ingestVars, pureVars>>

\* response.raise_for_status() on a non-2xx answer.
StatusNot2xx ==
    /\ relay_pc = "start"
    /\ fault' = "non2xx"
    /\ relay_pc' = "raised"
    /\ conn' = "released"
    /\ UNCHANGED <<upstream, linePos, events, req_stream>>
    /\ UNCHANGED <<serverVars, chunkerVars, ingestVars, pureVars>>

\* stream=True: the response is open and its status is 2xx.
OpenStream ==
    /\ relay_pc = "start"
    /\ req_stream
    /\ relay_pc' = "streaming"
    /\ conn' = "open"
    /\ UNCHANGED <<upstream, linePos, events, req_stream, fault>>
    /\ UNCHANGED <<serverVars, chunkerVars, ingestVars, pureVars>>

\* stream=False: yield response.text, which generate() frames as one event.
PostNonStream ==
    /\ relay_pc = "start"
    /\ ~req_stream
    /\ events' = Append(events, RawEvent)
    /\ relay_pc' = "returned"
    /\ conn' = "released"
    /\ UNCHANGED <<upstream, linePos, req_stream, fault>>
    /\ UNCHANGED <<serverVars, chunkerVars, ingestVars, pureVars>>

ReadLineForwardsDone ==
    /\ relay_pc = "streaming"
    /\ linePos < Len(upstream)
    /\ linePos' = linePos + 1
    /\ LET line == upstream[linePos + 1]
           act == LineAction(line)
       IN  /\ events' = CASE act = "yield" -> Append(events, ContentEvent(line.data.text))
                          [] act = "break" -> Append(events, DoneEvent)
                          [] OTHER -> events
           /\ relay_pc' = CASE act = "break" -> "returned"
                            [] act = "raise" -> "raised"
                            [] OTHER -> "streaming"
           /\ conn' = IF act \in {"break", "raise"} THEN "released" ELSE conn
           /\ fault' = IF act = "raise" THEN "decode" ELSE fault
    /\ UNCHANGED <<upstream, req_stream>>
    /\ UNCHANGED <<serverVars, chunkerVars, ingestVars, pureVars>>

\* One iteration of "async for line in response.aiter_lines()".
ReadLine ==
    /\ relay_pc = "streaming"
    /\ linePos < Len(upstream)
    /\ linePos' = linePos + 1
    /\ LET line == upstream[linePos + 1]
           act == LineAction(line)
       IN  /\ events' = IF act = "yield"
                        THEN Append(events, ContentEvent(line.data.text))
                        ELSE events
           /\ relay_pc' = CASE act = "break" -> "returned"
                            [] act = "raise" -> "raised"
                            [] OTHER -> "streaming"
           /\ conn' = IF act \in {"break", "raise"} THEN "released" ELSE conn
           /\ fault' = IF act = "raise" THEN "decode" ELSE fault
    /\ UNCHANGED <<upstream, req_stream>>
    /\ UNCHANGED <<serverVars, chunkerVars, ingestVars, pureVars>>

\* The body ends (with or without a [DONE] line before): the loop is over.
BodyEnds ==
    /\ relay_pc = "streaming"
    /\ linePos = Len(upstream)
    /\ relay_pc' = "returned"
    /\ conn' = "released"
    /\ UNCHANGED <<upstream, linePos, events, req_stream, fault>>
    /\ UNCHANGED <<serverVars, chunkerVars, ingestVars, pureVars>>

ReadFailsSilently ==
    /\ relay_pc = "streaming"
    /\ fault' = "midstream"
    /\ relay_pc' = "returned"
    /\ conn' = "released"
    /\ UNCHANGED <<upstream, linePos, events, req_stream>>
    /\ UNCHANGED <<serverVars, chunkerVars, ingestVars, pureVars>>

\* Reading the body fails (the server resets the connection, read timeout).
ReadFails ==
    /\ relay_pc = "streaming"
    /\ fault' = "midstream"
    /\ relay_pc' = "raised"
    /\ conn' = "released"
    /\ UNCHANGED <<upstream, linePos, events, req_stream>>
    /\ UNCHANGED <<serverVars, chunkerVars, ingestVars, pureVars>>

\* generate(): the async for is over: yield "data: [DONE]\n\n".
YieldDone ==
    /\ relay_pc = "returned"
    /\ events' = Append(events, DoneEvent)
    /\ relay_pc' = "closed"
    /\ UNCHANGED <<upstream, linePos, req_stream, fault, conn>>
    /\ UNCHANGED <<serverVars, chunkerVars, ingestVars, pureVars>>

\* generate(): except Exception: yield the error event.
YieldError ==
    /\ relay_pc = "raised"
    /\ events' = Append(events, ErrorEvent)
    /\ relay_pc' = "closed"
    /\ UNCHANGED <<upstream, linePos, req_stream, fault, conn>>
    /\ UNCHANGED <<serverVars, chunkerVars, ingestVars, pureVars>>

(***************************************************************************)
(* The client disconnects.  StreamingResponse stops iterating generate();  *)
(* the two generators are suspended (at a yield, or in the await of the    *)
(* next line) and are then exited there by an exception that is not an     *)
(* Exception (CancelledError, GeneratorExit), so that neither              *)
(* "except Exception" catches it and the "async with" blocks are left.     *)
(***************************************************************************)
ClientDisconnects ==
    /\ relay_pc \in {"start", "streaming", "returned", "raised"}
    /\ relay_pc' = "disconnected"
    /\ UNCHANGED <<upstream, linePos, events, req_stream, fault, conn>>
    /\ UNCHANGED <<serverVars, chunkerVars, ingestVars, pureVars>>

GeneratorExitsKeepingResponse ==
    /\ relay_pc = "disconnected"
    /\ relay_pc' = "cancelled"
    /\ UNCHANGED <<upstream, linePos, events, req_stream, fault, conn>>
    /\ UNCHANGED <<serverVars, chunkerVars, ingestVars, pureVars>>

\* chat_completion is exited inside "async with client.stream(...) as
\* response" and "async with httpx.AsyncClient(...)": both are closed.
GeneratorExits ==
    /\ relay_pc = "disconnected"
    /\ relay_pc' = "cancelled"
    /\ conn' = IF conn = "open" THEN "released" ELSE conn
    /\ UNCHANGED <<upstream, linePos, events, req_stream, fault>>
    /\ UNCHANGED <<serverVars, chunkerVars, ingestVars, pureVars>>

RelayNext ==
    \/ ConnectFails
    \/ StatusNot2xx
    \/ OpenStream
    \/ PostNonStream
    \/ ReadLine
    \/ BodyEnds
    \/ ReadFails
    \/ YieldDone
    \/ YieldError

\* The chat stream with a client that may go away before it is over.
CancelNext ==
    \/ RelayNext
    \/ ClientDisconnects
    \/ GeneratorExits

(***************************************************************************)
(* generate_text.stream_generator (backend/routes/llm.py): the relay of    *)
(* POST /generate.  It always asks the inference server for a stream; it   *)
(* opens the connection, fails to, and fails while reading as the chat     *)
(* relay does, and every exception ends in one error event.                *)
(***************************************************************************)
GenerateInit ==
    /\ req_stream = TRUE
    /\ upstream \in Bodies
    /\ linePos = 0
    /\ relay_pc = "start"
    /\ events = <<>>
    /\ fault = "none"
    /\ conn = "none"

\* if response.status_code != 200: yield the error event; return
GenerateNot200 ==
    /\ relay_pc = "start"
    /\ fault' = "non2xx"
    /\ events' = Append(events, ErrorEvent)
    /\ relay_pc' = "closed"
    /\ conn' = "released"
    /\ UNCHANGED <<upstream, linePos, req_stream>>
    /\ UNCHANGED <<serverVars, chunkerVars, ingestVars, pureVars>>

\* One iteration of "async for line in response.aiter_lines()": an empty
\* line or one without "data: " is passed over, [DONE] yields the done
\* event and breaks, json.JSONDecodeError is passed over, another
\* exception leaves the loop for "except Exception".
GenerateReadLine ==
    /\ relay_pc = "streaming"
    /\ linePos < Len(upstream)
    /\ linePos' = linePos + 1
    /\ LET line == upstream[linePos + 1]
           act == LineAction(line)
       IN  /\ events' = CASE act = "yield" ->
                                Append(events, ContentEvent(line.data.text))
                          [] act = "break" -> Append(events, DoneEvent)
                          [] OTHER -> events
           /\ relay_pc' = CASE act = "break" -> "closed"
                            [] act = "raise" -> "raised"
                            [] OTHER -> "streaming"
           /\ conn' = IF act \in {"break", "raise"} THEN "released" ELSE conn
           /\ fault' = IF act = "raise" THEN "decode" ELSE fault
    /\ UNCHANGED <<upstream, req_stream>>
    /\ UNCHANGED <<serverVars, chunkerVars, ingestVars, pureVars>>

\* The body ends without a [DONE] line: the loop and the generator are
\* over, nothing more is yielded.
GenerateBodyEnds ==
    /\ relay_pc = "streaming"
    /\ linePos = Len(upstream)
    /\ relay_pc' = "closed"
    /\ conn' = "released"
    /\ UNCHANGED <<upstream, linePos, events, req_stream, fault>>
    /\ UNCHANGED <<serverVars, chunkerVars, ingestVars, pureVars>>

GenerateNext ==
    \/ ConnectFails
    \/ GenerateNot200
    \/ OpenStream
    \/ GenerateReadLine
    \/ GenerateBodyEnds
    \/ ReadFails
    \/ YieldError

(***************************************************************************)
(* Settings (backend/config.py) and request values.                        *)
(***************************************************************************)
rag_top_k == 3
\* rag_similarity_threshold = 0.5; similarities are counted in 1/200.
rag_similarity_threshold == 100

\* str.lower(), on identifiers written as sequences of characters.
LowerChar(ch) ==
    CASE ch = "E" -> "e"
      [] ch = "X" -> "x"
      [] OTHER -> ch

Lower(name) == [i \in 1..Len(name) |-> LowerChar(name[i])]

\* sub in name
Contains(name, sub) ==
    \E i \in 0..(Len(name) - Len(sub)) :
        SubSeq(name, i + 1, i + Len(sub)) = sub

HasE5CaseSensitive(model_name) == Contains(model_name, <<"e", "5">>)

\* "e5" in settings.embedding_model.lower()
HasE5(model_name) == Contains(Lower(model_name), <<"e", "5">>)

\* settings.embedding_model = "intfloat/multilingual-e5-base"
settings_embedding_model ==
    <<"i", "n", "t", "f", "l", "o", "a", "t", "/", "m", "u", "l", "t", "i",
      "l", "i", "n", "g", "u", "a", "l", "-", "e", "5", "-", "b", "a", "s",
      "e">>

ModelIsE5 == HasE5(settings_embedding_model)
settings_chunk_size == 1000
settings_chunk_overlap == 200

\* An Optional value: {} is None, {v} is the value v.
None == {}
Some(v) == {v}
Val(opt) == CHOOSE v \in opt : TRUE

\* Python's "opt or default": None, 0 and 0.0 are falsy.
OrDefault(opt, default) ==
    IF opt = None \/ opt = Some(0) THEN default ELSE Val(opt)

Reqs == {"r1", "r2"}
\* The texts of queries and chat questions; "" is the empty text.
Queries == {"", "q1", "q2"}
TopKs == {None, Some(0), Some(1), Some(2)}
\* None, -3.0, 0.0, 0.5, 0.9, 1.0, 1.1
Thresholds == {None, Some(-600), Some(0), Some(100), Some(180), Some(200),
               Some(220)}

(***************************************************************************)
(* Conversations.  The content of a message is a question followed by the  *)
(* labelled context blocks of create_rag_prompt (none for a plain text).   *)
(***************************************************************************)
Plain(q) == [question |-> q, context |-> <<>>]
Message(role, content) == [role |-> role, content |-> content]

Messages ==
    { Message("user", Plain(q)) : q \in Queries }
      \cup { Message("assistant", Plain("a1")), Message("system", Plain("s1")) }

Conversations == UNION { [1..n -> Messages] : n \in 0..MaxMsgs }

\* get_system_prompt()
SystemPrompt == Message("system", Plain("system_prompt"))

MessagesDictAlwaysInserts(messages) == <<SystemPrompt>> \o messages

\* LLMClient.chat_completion: messages_dict, with the system prompt
\* inserted at position 0 when the first message is not a system message.
MessagesDict(messages) ==
    IF messages = <<>> \/ messages[1].role # "system"
    THEN <<SystemPrompt>> \o messages
    ELSE messages

\* create_rag_prompt(context, question)
create_rag_prompt(context, question) ==
    IF context = <<>> THEN question
    ELSE [question |-> question.question,
          context |-> [i \in 1..Len(context) |->
                          [label |-> i,
                           filename |-> context[i].filename,
                           content |-> context[i].content]]]

(***************************************************************************)
(* Embeddings and the vector store.  Vectors are the unit vectors at the   *)
(* angles k*pi/4, k in 0..4; the L2 distance of two of them is the chord,  *)
(* in tenths.                                                              *)
(***************************************************************************)
Text(prefix, body) == [prefix |-> prefix, body |-> body]

\* encode_query: the text handed to encode
EncodeQueryText(query) ==
    IF ModelIsE5 THEN Text("query: ", query) ELSE Text("", query)

\* encode_query and encode_documents under the model identifier
\* model_name: the list of texts they hand to encode.
encode_query(model_name, query) ==
    IF HasE5(model_name) THEN <<Text("query: ", query)>>
    ELSE <<Text("", query)>>

encode_documents(model_name, documents) ==
    IF HasE5(model_name)
    THEN [i \in 1..Len(documents) |-> Text("passage: ", documents[i])]
    ELSE [i \in 1..Len(documents) |-> Text("", documents[i])]

\* SentenceTransformer.encode(..., normalize_embeddings=True)
Vector(encoded) ==
    CASE encoded = Text("query: ", "q1") -> 0
      [] encoded = Text("query: ", "q2") -> 1
      [] encoded = Text("", "q1") -> 2
      [] encoded = Text("", "q2") -> 3
      [] OTHER -> 4

Abs(x) == IF x < 0 THEN -x ELSE x
Dist10(a, b) == <<0, 8, 14, 18, 20>>[Abs(a - b) + 1]

SimilarityNoHalf(d10) == 200 - 2 * d10 * d10

\* similarity = 1 - (distance ** 2 / 2), in 1/200
Similarity200(d10) == 200 - d10 * d10

Chunk(id, emb, category, filename) ==
    [id |-> id, emb |-> emb, category |-> category, filename |-> filename]

\* The chunks a persisted collection may hold when the process starts.
StoredChunks ==
    { Chunk(1, 0, "evaluation", "a.md"), Chunk(2, 2, "goalsetting", "b.md"),
      Chunk(3, 1, "evaluation", "a.md"), Chunk(4, 4, "goalsetting", "c.md") }

Collections ==
    { {}, {Chunk(1, 0, "evaluation", "a.md")},
      StoredChunks \ {Chunk(4, 4, "goalsetting", "c.md")}, StoredChunks }

\* VectorDB.count
Count == Cardinality(collection)

Nearer(a, b, q) ==
    \/ Dist10(a.emb, q) < Dist10(b.emb, q)
    \/ Dist10(a.emb, q) = Dist10(b.emb, q) /\ a.id < b.id

RECURSIVE Nearest(_, _, _)
Nearest(S, q, n) ==
    IF S = {} \/ n <= 0 THEN <<>>
    ELSE LET m == CHOOSE c \in S : \A d \in S \ {c} : Nearer(c, d, q)
         IN  <<m>> \o Nearest(S \ {m}, q, n - 1)

\* VectorDB.query: the n_results nearest chunks that pass the filter,
\* nearest first.
VectorDBQuery(q, n_results, where) ==
    Nearest({ c \in collection : where = None \/ c.category = Val(where) },
            q, n_results)

ContextItemsUnfiltered(results, q, threshold) ==
    [i \in 1..Len(results) |->
        [content |-> results[i].id, filename |-> results[i].filename,
         score |-> Similarity200(Dist10(results[i].emb, q))]]

\* The loop over the store's results: distance to similarity, threshold.
RECURSIVE ContextItems(_, _, _)
ContextItems(results, q, threshold) ==
    IF results = <<>> THEN <<>>
    ELSE LET c == Head(results)
             similarity == Similarity200(Dist10(c.emb, q))
             rest == ContextItems(Tail(results), q, threshold)
         IN  IF similarity >= threshold
             THEN <<[content |-> c.id, filename |-> c.filename,
                     score |-> similarity]>> \o rest
             ELSE rest

(***************************************************************************)
(* Requests and responses.                                                 *)
(***************************************************************************)
Args(query, top_k, threshold, messages, use_rag, category) ==
    [query |-> query, top_k |-> top_k, threshold |-> threshold,
     messages |-> messages, use_rag |-> use_rag, category |-> category]

NoArgs == Args("", None, None, <<>>, FALSE, None)

RagArgs == { Args(q, k, t, <<>>, TRUE, None) :
                q \in Queries, k \in TopKs, t \in Thresholds }

ChatArgs == { Args("", k, None, m, u, c) :
                k \in {None, Some(1)}, m \in Conversations, u \in BOOLEAN,
                c \in {None, Some("evaluation"), Some("goalsetting")} }

\* Every request body of the bounded input space, by endpoint.
AllArgs == [k \in {"rag", "chat"} |-> IF k = "rag" THEN RagArgs ELSE ChatArgs]

\* The request bodies of a client that leaves the optional fields alone.
PlainArgs ==
    [k \in {"rag", "chat"} |->
        IF k = "rag"
        THEN { Args("q1", Some(rag_top_k), Some(rag_similarity_threshold),
                    <<>>, TRUE, None) }
        ELSE { Args("", None, None, <<Message("user", Plain("q1"))>>, u, None) :
                    u \in BOOLEAN }]

NoStatus == [status |-> "", is_ready |-> FALSE, error |-> "None",
             elapsed_seconds |-> "None"]

Response(r, k, a, http, count, calls, n_results, threshold, context, forwarded, status) ==
    [req |-> r, kind |-> k, args |-> a, http |-> http, count |-> count,
     calls |-> calls, n_results |-> n_results, threshold |-> threshold,
     context |-> context, forwarded |-> forwarded, status |-> status,
     \* what generate() makes chat_completion send to the inference server
     payload |-> IF k = "chat" /\ http = 200 THEN MessagesDict(forwarded)
                 ELSE <<>>]

NoResponse ==
    Response("", "none", NoArgs, 0, 0, <<>>, None, None, <<>>, <<>>, NoStatus)

\* [msg for msg in request.messages if msg.role == "user"]
UserMessages(ms) == SelectSeq(ms, LAMBDA m : m.role = "user")

\* user_messages[-1].content
LatestMessage(ms) == UserMessages(ms)[Len(UserMessages(ms))].content

StoreNeverEmpty(count) == FALSE

\* The collection-is-empty test of both handlers.
StoreIsEmpty(count) == count = 0

\* Does the handler get past its early returns to encode_query?
UsesEmbedding(k, a) ==
    IF k = "rag" THEN ~StoreIsEmpty(Count)
    ELSE UserMessages(a.messages) # <<>> /\ a.use_rag /\ ~StoreIsEmpty(Count)

\* query_rag, from the query of the store to the response.
RagResponse(r, a, calls) ==
    LET top_k == OrDefault(a.top_k, rag_top_k)
        threshold == OrDefault(a.threshold, rag_similarity_threshold)
        q == Vector(EncodeQueryText(a.query))
        results == VectorDBQuery(q, top_k, None)
    IN  Response(r, "rag", a, 200, Count, calls \o <<"query">>, Some(top_k),
                 Some(threshold), ContextItems(results, q, threshold), <<>>,
                 NoStatus)

\* messages[-1] = Message(role="user", content=rag_prompt)
ReplaceMessage(messages, prompt) ==
    [messages EXCEPT ![Len(messages)] = Message("user", prompt)]

ChatResponseFailsOnEmpty(r, a, calls) ==
    LET top_k == OrDefault(a.top_k, rag_top_k)
        latest_message == LatestMessage(a.messages)
        q == Vector(EncodeQueryText(latest_message.question))
        results == VectorDBQuery(q, top_k, a.category)
        threshold == rag_similarity_threshold
        context_items == ContextItems(results, q, threshold)
    IN  IF context_items = <<>>
        THEN Response(r, "chat", a, 500, Count, calls \o <<"query">>, None,
                      None, <<>>, <<>>, NoStatus)
        ELSE Response(r, "chat", a, 200, Count, calls \o <<"query">>,
                      Some(top_k), Some(threshold), context_items,
                      ReplaceMessage(a.messages,
                          create_rag_prompt(context_items, latest_message)),
                      NoStatus)

\* chat_with_rag, from the query of the store to the StreamingResponse.
ChatResponse(r, a, calls) ==
    LET top_k == OrDefault(a.top_k, rag_top_k)
        latest_message == LatestMessage(a.messages)
        q == Vector(EncodeQueryText(latest_message.question))
        results == VectorDBQuery(q, top_k, a.category)
        threshold == rag_similarity_threshold
        context_items == ContextItems(results, q, threshold)
        messages ==
            IF context_items # <<>>
            THEN ReplaceMessage(a.messages,
                                create_rag_prompt(context_items, latest_message))
            ELSE a.messages
    IN  Response(r, "chat", a, 200, Count, calls \o <<"query">>, Some(top_k),
                 Some(threshold), context_items, messages, NoStatus)

Retrieved(r, k, a, calls) ==
    IF k = "rag" THEN RagResponse(r, a, calls) ELSE ChatResponse(r, a, calls)

\* except Exception: raise HTTPException(status_code=500, ...)
Failed(r, k, a, calls) ==
    Response(r, k, a, 500, Count, calls, None, None, <<>>, <<>>, NoStatus)

(***************************************************************************)
(* The process: one event loop.  Every handler is an "async def" that      *)
(* calls the embedding provider and the store synchronously, so a handler  *)
(* that has started keeps the loop until it returns.                       *)
(***************************************************************************)
ServerInit ==
    /\ embedding_model = [model |-> "None", embedding_dim |-> "None",
                          is_loaded |-> FALSE, status |-> "not_loaded",
                          error_message |-> "None", load_start_time |-> "None"]
    /\ collection \in Collections
    /\ pc = [r \in Reqs |-> "idle"]
    /\ kind = [r \in Reqs |-> "none"]
    /\ args = [r \in Reqs |-> NoArgs]
    /\ firstUse = [members |-> {}, loads |-> 0]
    /\ last = NoResponse

\* No handler is in the middle of its synchronous code.
LoopFree == \A q \in Reqs : pc[q] \in {"idle", "pending"}

Finish(r, response) ==
    /\ last' = response
    /\ pc' = [pc EXCEPT ![r] = "idle"]
    /\ kind' = [kind EXCEPT ![r] = "none"]
    /\ args' = [args EXCEPT ![r] = NoArgs]

\* A request reaches the server; it waits for the loop.
Arrive(r) ==
    /\ pc[r] = "idle"
    /\ \E k \in {"rag", "chat", "status"} :
          /\ kind' = [kind EXCEPT ![r] = k]
          /\ firstUse' =
                [firstUse EXCEPT !.members =
                    IF k # "status" /\ embedding_model.status = "not_loaded"
                    THEN @ \cup {r} ELSE @ \ {r}]
    /\ pc' = [pc EXCEPT ![r] = "pending"]
    /\ last' = NoResponse
    /\ UNCHANGED <<embedding_model, collection, args>>
    /\ UNCHANGED <<relayVars, chunkerVars, ingestVars, pureVars>>

\* query_rag / chat_with_rag on a path that makes no embedding call: no
\* user message (400), RAG switched off, or an empty collection.
HandleWithoutEmbedding(r, pool) ==
    /\ LoopFree
    /\ pc[r] = "pending"
    /\ kind[r] \in {"rag", "chat"}
    /\ \E a \in pool[kind[r]] :
          /\ ~UsesEmbedding(kind[r], a)
          /\ IF kind[r] = "chat" /\ UserMessages(a.messages) = <<>>
             THEN Finish(r, Response(r, "chat", a, 400, 0, <<>>, None, None,
                                     <<>>, <<>>, NoStatus))
             ELSE Finish(r, Response(r, kind[r], a, 200,
                            IF kind[r] = "rag" \/ a.use_rag THEN Count ELSE 0,
                            IF kind[r] = "rag" \/ a.use_rag
                            THEN <<"count">> ELSE <<>>,
                            None, None, <<>>,
                            IF kind[r] = "chat" THEN a.messages ELSE <<>>,
                            NoStatus))
    /\ UNCHANGED <<embedding_model, collection, firstUse>>
    /\ UNCHANGED <<relayVars, chunkerVars, ingestVars, pureVars>>

\* The handler reaches encode() with the model loaded: model.encode, which
\* may raise, then the query of the store and the response.
HandleLoaded(r, pool) ==
    /\ LoopFree
    /\ pc[r] = "pending"
    /\ kind[r] \in {"rag", "chat"}
    /\ embedding_model.is_loaded
    /\ \E a \in pool[kind[r]], ok \in BOOLEAN :
          /\ UsesEmbedding(kind[r], a)
          /\ IF ok
             THEN Finish(r, Retrieved(r, kind[r], a,
                                      <<"count", "encode_query", "encode">>))
             ELSE Finish(r, Failed(r, kind[r], a,
                                   <<"count", "encode_query", "encode">>))
    /\ UNCHANGED <<embedding_model, collection, firstUse>>
    /\ UNCHANGED <<relayVars, chunkerVars, ingestVars, pureVars>>

\* encode() and _load_model without their test of _is_loaded.
HandleStartLoadAlways(r, pool) ==
    /\ LoopFree
    /\ pc[r] = "pending"
    /\ kind[r] \in {"rag", "chat"}
    /\ \E a \in pool[kind[r]] :
          /\ UsesEmbedding(kind[r], a)
          /\ args' = [args EXCEPT ![r] = a]
    /\ embedding_model' = [embedding_model EXCEPT !.status = "downloading",
                                                  !.load_start_time = "set"]
    /\ pc' = [pc EXCEPT ![r] = "downloading"]
    /\ firstUse' = [firstUse EXCEPT !.loads =
                        IF r \in firstUse.members THEN @ + 1 ELSE @]
    /\ last' = NoResponse
    /\ UNCHANGED <<collection, kind>>
    /\ UNCHANGED <<relayVars, chunkerVars, ingestVars, pureVars>>

\* The handler reaches encode() with _is_loaded false: _load_model starts.
HandleStartLoad(r, pool) ==
    /\ LoopFree
    /\ pc[r] = "pending"
    /\ kind[r] \in {"rag", "chat"}
    /\ ~embedding_model.is_loaded
    /\ \E a \in pool[kind[r]] :
          /\ UsesEmbedding(kind[r], a)
          /\ args' = [args EXCEPT ![r] = a]
    /\ embedding_model' = [embedding_model EXCEPT !.status = "downloading",
                                                  !.load_start_time = "set"]
    /\ pc' = [pc EXCEPT ![r] = "downloading"]
    /\ firstUse' = [firstUse EXCEPT !.loads =
                        IF r \in firstUse.members THEN @ + 1 ELSE @]
    /\ last' = NoResponse
    /\ UNCHANGED <<collection, kind>>
    /\ UNCHANGED <<relayVars, chunkerVars, ingestVars, pureVars>>

\* _load_model: except Exception
LoadError(em) ==
    [em EXCEPT !.status = "error", !.error_message = "load failed",
               !.load_start_time = "None"]

\* _load_model: SentenceTransformer(...) returns or raises.
LoadConstruct(r) ==
    /\ pc[r] = "downloading"
    /\ \E ok \in BOOLEAN :
          IF ok
          THEN /\ embedding_model' = [embedding_model EXCEPT
                                         !.model = "SentenceTransformer",
                                         !.status = "loading"]
               /\ pc' = [pc EXCEPT ![r] = "loading"]
               /\ last' = NoResponse
               /\ UNCHANGED <<kind, args>>
          ELSE /\ embedding_model' = LoadError(embedding_model)
               /\ Finish(r, Failed(r, kind[r], args[r],
                                   <<"count", "encode_query", "_load_model">>))
    /\ UNCHANGED <<collection, firstUse>>
    /\ UNCHANGED <<relayVars, chunkerVars, ingestVars, pureVars>>

\* _load_model: get_sentence_embedding_dimension() returns or raises; after
\* a successful load the handler goes on as in HandleLoaded.
LoadFinish(r) ==
    /\ pc[r] = "loading"
    /\ \E loaded \in BOOLEAN, ok \in BOOLEAN :
          IF loaded
          THEN /\ embedding_model' = [embedding_model EXCEPT
                                         !.embedding_dim = "dim",
                                         !.is_loaded = TRUE,
                                         !.status = "ready",
                                         !.error_message = "None",
                                         !.load_start_time = "None"]
               /\ IF ok
                  THEN Finish(r, Retrieved(r, kind[r], args[r],
                          <<"count", "encode_query", "_load_model", "encode">>))
                  ELSE Finish(r, Failed(r, kind[r], args[r],
                          <<"count", "encode_query", "_load_model", "encode">>))
          ELSE /\ ok
               /\ embedding_model' = LoadError(embedding_model)
               /\ Finish(r, Failed(r, kind[r], args[r],
                                   <<"count", "encode_query", "_load_model">>))
    /\ UNCHANGED <<collection, firstUse>>
    /\ UNCHANGED <<relayVars, chunkerVars, ingestVars, pureVars>>

\* EmbeddingModel.get_status
get_status ==
    [status |-> embedding_model.status,
     is_ready |-> embedding_model.is_loaded,
     error |-> embedding_model.error_message,
     elapsed_seconds |-> IF embedding_model.load_start_time # "None"
                         THEN "elapsed" ELSE "None"]

\* GET /api/model-status
ModelStatus(r) ==
    /\ LoopFree
    /\ pc[r] = "pending"
    /\ kind[r] = "status"
    /\ Finish(r, Response(r, "status", NoArgs, 200, 0, <<"get_status">>, None,
                          None, <<>>, <<>>, get_status))
    /\ UNCHANGED <<embedding_model, collection, firstUse>>
    /\ UNCHANGED <<relayVars, chunkerVars, ingestVars, pureVars>>

\* Two clients at a time, plain request bodies.
ServerNext ==
    \E r \in Reqs :
        \/ Arrive(r)
        \/ HandleWithoutEmbedding(r, PlainArgs)
        \/ HandleLoaded(r, PlainArgs)
        \/ HandleStartLoad(r, PlainArgs)
        \/ LoadConstruct(r)
        \/ LoadFinish(r)
        \/ ModelStatus(r)

\* One client, every request body.
RetrievalNext ==
    \/ Arrive("r1")
    \/ HandleWithoutEmbedding("r1", AllArgs)
    \/ HandleLoaded("r1", AllArgs)
    \/ HandleStartLoad("r1", AllArgs)
    \/ LoadConstruct("r1")
    \/ LoadFinish("r1")
    \/ ModelStatus("r1")

(***************************************************************************)
(* Texts (backend/text_processing.py).  A text is kept as its runs: a      *)
(* sequence of [ch, n], n >= 1 copies of the character ch, two adjacent    *)
(* runs never of the same character, so that two texts are equal exactly   *)
(* when their runs are.  "x" stands for every character that is neither    *)
(* whitespace nor a sentence end, " " for whitespace other than a newline, *)
(* "." for the sentence ends that are not whitespace.                      *)
(***************************************************************************)
Chars == {"x", " ", ".", "\n"}

\* The characters str.strip() removes.
IsSpace(ch) == ch \in {" ", "\n"}

\* The characters split_text_into_chunks looks for with rfind.
IsSentenceEnd(ch) == ch \in {".", "\n"}

Run(ch, n) == [ch |-> ch, n |-> n]

Min2(a, b) == IF a < b THEN a ELSE b
Max2(a, b) == IF a > b THEN a ELSE b

\* len(text)
RECURSIVE TextLen(_)
TextLen(t) == IF t = <<>> THEN 0 ELSE Head(t).n + TextLen(Tail(t))

\* The runs of a text written as pieces that may repeat a character.
RECURSIVE Normalize(_)
Normalize(t) ==
    IF Len(t) < 2 THEN t
    ELSE IF t[1].ch = t[2].ch
         THEN Normalize(<<Run(t[1].ch, t[1].n + t[2].n)>> \o SubSeq(t, 3, Len(t)))
         ELSE <<t[1]>> \o Normalize(Tail(t))

\* text[lo:hi] for 0 <= lo, with off the index of the first character of t.
RECURSIVE SliceFrom(_, _, _, _)
SliceFrom(t, off, lo, hi) ==
    IF t = <<>> THEN <<>>
    ELSE LET a == Max2(lo, off)
             b == Min2(hi, off + Head(t).n)
             rest == SliceFrom(Tail(t), off + Head(t).n, lo, hi)
         IN  IF b > a THEN <<Run(Head(t).ch, b - a)>> \o rest ELSE rest

\* An index of a slice or of rfind: a negative one counts from the end.
Index(t, i) == IF i < 0 THEN Max2(TextLen(t) + i, 0) ELSE i

\* text[lo:hi]
Slice(t, lo, hi) == SliceFrom(t, 0, Index(t, lo), Index(t, hi))

\* str.lstrip, str.rstrip, str.strip
RECURSIVE LStrip(_)
LStrip(t) == IF t # <<>> /\ IsSpace(Head(t).ch) THEN LStrip(Tail(t)) ELSE t

RECURSIVE RStrip(_)
RStrip(t) ==
    IF t # <<>> /\ IsSpace(t[Len(t)].ch)
    THEN RStrip(SubSeq(t, 1, Len(t) - 1)) ELSE t

Strip(t) == RStrip(LStrip(t))

\* max(text.rfind(c, lo, hi) for the sentence ends c): the index of the last
\* sentence end in text[lo:hi], -1 when there is none.
RECURSIVE RFindFrom(_, _, _, _)
RFindFrom(t, off, lo, hi) ==
    IF t = <<>> THEN -1
    ELSE LET a == Max2(lo, off)
             b == Min2(hi, off + Head(t).n)
             here == IF IsSentenceEnd(Head(t).ch) /\ b > a THEN b - 1 ELSE -1
         IN  Max2(here, RFindFrom(Tail(t), off + Head(t).n, lo, hi))

RFindSentenceEnd(t, lo, hi) == RFindFrom(t, 0, Index(t, lo), Index(t, hi))

\* clean_text: re.sub(r"[^\S\n]+", " ", text)
CollapseSpaces(t) ==
    [i \in 1..Len(t) |-> IF t[i].ch = " " THEN Run(" ", 1) ELSE t[i]]

\* clean_text: re.sub(r"\n{3,}", "\n\n", text)
CollapseNewlines(t) ==
    [i \in 1..Len(t) |->
        IF t[i].ch = "\n" /\ t[i].n >= 3 THEN Run("\n", 2) ELSE t[i]]

\* clean_text: "\n".join(line.strip() for line in text.split("\n")); the
\* whitespace at either end of a line goes, the newlines stay.
StripLines(t) ==
    LET AtLineEnd(i) ==
            \/ i = 1
            \/ i = Len(t)
            \/ t[i - 1].ch = "\n"
            \/ t[i + 1].ch = "\n"
        kept == SelectSeq([i \in 1..Len(t) |-> [run |-> t[i], i |-> i]],
                          LAMBDA e : ~(e.run.ch = " " /\ AtLineEnd(e.i)))
    IN  Normalize([i \in 1..Len(kept) |-> kept[i].run])

clean_text(t) == Strip(StripLines(CollapseNewlines(CollapseSpaces(t))))

(***************************************************************************)
(* split_text_into_chunks, one iteration of its loop at a time.            *)
(***************************************************************************)
\* search_start = int(end - chunk_size * 0.2); the product is not an
\* integer unless chunk_size is a multiple of 5, and int() drops the
\* fraction of the difference.
SearchStart(end, size) == end - ((size + 4) \div 5)

\* The cut made at the sentence end itself, not after it.
WindowEndBeforeSentenceEnd(t, s, size) ==
    LET end == s + size
        sentence_end == RFindSentenceEnd(t, SearchStart(end, size), end)
    IN  IF end < TextLen(t) /\ sentence_end > s
        THEN sentence_end ELSE end

\* The end of the window that starts at s: s + chunk_size, or just after
\* the last sentence end of its last fifth when the text goes on.
WindowEnd(t, s, size) ==
    LET end == s + size
        sentence_end == RFindSentenceEnd(t, SearchStart(end, size), end)
    IN  IF end < TextLen(t) /\ sentence_end > s
        THEN sentence_end + 1 ELSE end

NextStartTwiceOverlap(t, end, overlap) ==
    IF end < TextLen(t) THEN end - 2 * overlap ELSE end

\* start = end - chunk_overlap if end < len(text) else end
NextStart(t, end, overlap) == IF end < TextLen(t) THEN end - overlap ELSE end

Window(s, e) == [start |-> s, end |-> e]

\* The texts split_text_into_chunks is called with.
RunLengths == {1, MaxRun}

Texts ==
    { t \in UNION { [1..n -> { Run(ch, k) : ch \in Chars, k \in RunLengths }] :
                    n \in 0..MaxRuns } :
        \A i \in 1..(Len(t) - 1) : t[i].ch # t[i + 1].ch }

\* More iterations than a call that moves on by a character each time needs.
MaxWindows == MaxRuns * MaxRun + 1

ChunkerAtRest ==
    /\ split_pc = "idle"
    /\ text = <<>>
    /\ chunk_size = 0
    /\ chunk_overlap = 0
    /\ start = 0
    /\ chunks = <<>>
    /\ windows = <<>>

\* A call split_text_into_chunks(text, chunk_size, chunk_overlap).
ChunkerInit ==
    /\ split_pc = "called"
    /\ text \in Texts
    /\ chunk_size \in 1..MaxSize
    /\ chunk_overlap \in 0..(chunk_size - 1)
    /\ start = 0
    /\ chunks = <<>>
    /\ windows = <<>>

\* if len(text) <= chunk_size: return [text]
SplitShort ==
    /\ split_pc = "called"
    /\ TextLen(text) <= chunk_size
    /\ chunks' = <<text>>
    /\ windows' = <<Window(0, TextLen(text))>>
    /\ split_pc' = "returned"
    /\ UNCHANGED <<text, chunk_size, chunk_overlap, start>>
    /\ UNCHANGED <<relayVars, serverVars, ingestVars, pureVars>>

\* chunks = []; start = 0
SplitLong ==
    /\ split_pc = "called"
    /\ TextLen(text) > chunk_size
    /\ chunks' = <<>>
    /\ start' = 0
    /\ split_pc' = "loop"
    /\ UNCHANGED <<text, chunk_size, chunk_overlap, windows>>
    /\ UNCHANGED <<relayVars, serverVars, ingestVars, pureVars>>

\* One iteration of "while start < len(text)".
SplitStep ==
    /\ split_pc = "loop"
    /\ start < TextLen(text)
    /\ Len(windows) < MaxWindows
    /\ LET end == WindowEnd(text, start, chunk_size)
           chunk == Strip(Slice(text, start, end))
       IN  /\ chunks' = IF chunk # <<>> THEN Append(chunks, chunk) ELSE chunks
           /\ windows' = Append(windows, Window(start, end))
           /\ start' = NextStart(text, end, chunk_overlap)
    /\ UNCHANGED <<text, chunk_size, chunk_overlap, split_pc>>
    /\ UNCHANGED <<relayVars, serverVars, ingestVars, pureVars>>

\* The loop ends: return chunks
SplitReturn ==
    /\ split_pc = "loop"
    /\ start >= TextLen(text)
    /\ split_pc' = "returned"
    /\ UNCHANGED <<text, chunk_size, chunk_overlap, start, chunks, windows>>
    /\ UNCHANGED <<relayVars, serverVars, ingestVars, pureVars>>

ChunkerNext == SplitShort \/ SplitLong \/ SplitStep \/ SplitReturn

(***************************************************************************)
(* Ingestion (backend/routes/documents.py, create_chunks_with_metadata).   *)
(* A document handler calls the chunker, the embedding provider and the    *)
(* store synchronously, so it runs from its first line to its response     *)
(* without any other handler in between.                                   *)
(***************************************************************************)
\* The whole loop of split_text_into_chunks from the window start s.
RECURSIVE SplitFrom(_, _, _, _)
SplitFrom(t, s, size, overlap) ==
    IF s >= TextLen(t) THEN <<>>
    ELSE LET end == WindowEnd(t, s, size)
             chunk == Strip(Slice(t, s, end))
         IN  (IF chunk # <<>> THEN <<chunk>> ELSE <<>>)
                \o SplitFrom(t, NextStart(t, end, overlap), size, overlap)

split_text_into_chunks(t, size, overlap) ==
    IF TextLen(t) <= size THEN <<t>> ELSE SplitFrom(t, 0, size, overlap)

\* A filename, as the part before its extension and the extension.
FileName(stem, ext) == [stem |-> stem, ext |-> ext]

\* upload_text: filename.endswith(('.md', '.txt'))
EndsWithMdOrTxt(f) == f.ext \in {".md", ".txt"}

\* upload_text: the name the text is stored under.
TextFileName(f) == IF EndsWithMdOrTxt(f) THEN f ELSE FileName(f.stem, ".md")

\* dict.get(key, default): the default stands in for a missing key only.
Get(value, default) == IF value = None THEN default ELSE Val(value)

\* create_document: title and filename = f"{title}.md"
Title(metadata_title) == Get(metadata_title, "Untitled")

\* The documents sent to the handlers: an empty one, one of whitespace, a
\* short one, and two of DocLen characters: without a sentence end, and
\* with one in the last fifth of the first and of the second window.
DocPlain == <<Run("x", DocLen)>>

DocTwoCuts ==
    <<Run("x", 800), Run(".", 1), Run("x", 600), Run("\n", 1),
      Run("x", DocLen - 1402)>>

Documents ==
    { <<>>, <<Run("\n", 1), Run(" ", 2)>>,
      <<Run(" ", 2), Run("x", 3), Run("\n", 1)>>,
      DocPlain, DocTwoCuts }

\* create_document_id: md5 of f"{filename}_{chunk_index}_{now}"; two ids are
\* equal exactly when the three parts are.
create_document_id(filename, chunk_index, now) ==
    [filename |-> filename, chunk_index |-> chunk_index, now |-> now]

\* The values datetime.now() returns during one call of
\* create_chunks_with_metadata: the first for upload_timestamp, the others
\* for the ids.  The reads of one call fall within one step of the clock;
\* between two calls the clock may have moved on, stood still or been set
\* back.
ClockReads(n) ==
    { r \in [1..n -> 1..MaxClock] : \A i \in 1..(n - 1) : r[i] = r[i + 1] }

\* encode_documents: the text handed to encode
EncodeDocumentText(doc) ==
    IF ModelIsE5 THEN Text("passage: ", doc) ELSE Text("", doc)

\* One chunk with its metadata, as create_chunks_with_metadata and the
\* handler make it; i is the chunk_index.
StoredChunk(doc, doc_chunks, i, filename, file_type, reads, category, title) ==
    [id |-> create_document_id(filename, i, reads[i + 2]),
     document |-> doc_chunks[i + 1],
     encoded |-> EncodeDocumentText(doc_chunks[i + 1]),
     filename |-> filename,
     file_type |-> file_type,
     chunk_index |-> i,
     total_chunks |-> Len(doc_chunks),
     upload_timestamp |-> reads[1],
     char_count |-> TextLen(doc_chunks[i + 1]),
     original_content |-> IF i = 0 THEN Some(doc) ELSE None,
     category |-> category,
     title |-> title]

\* EmbeddingModel.encode called from a handler that keeps the loop: the
\* model is loaded first when it is not, and the load or the encoding may
\* raise.
EncodeOutcomes(em) ==
    IF em.is_loaded
    THEN { [em |-> em, ok |-> b] : b \in BOOLEAN }
    ELSE LET downloading == [em EXCEPT !.status = "downloading",
                                       !.load_start_time = "set"]
             loading == [downloading EXCEPT !.model = "SentenceTransformer",
                                            !.status = "loading"]
             ready == [loading EXCEPT !.embedding_dim = "dim",
                                      !.is_loaded = TRUE,
                                      !.status = "ready",
                                      !.error_message = "None",
                                      !.load_start_time = "None"]
         IN  { [em |-> LoadError(downloading), ok |-> FALSE],
               [em |-> LoadError(loading), ok |-> FALSE],
               [em |-> ready, ok |-> FALSE],
               [em |-> ready, ok |-> TRUE] }

\* A response of a document handler, with what the handler did: the calls
\* it made and the value the store's removal method returned to it.
IngestResponse(k, http, doc, filename, chunk_ids, calls, chunks_deleted, returned) ==
    [kind |-> k, http |-> http, doc |-> doc, filename |-> filename,
     chunk_ids |-> chunk_ids, calls |-> calls,
     chunks_deleted |-> chunks_deleted, returned |-> returned]

NoFileName == FileName("", "")

StoredIds == { c.id : c \in collection }

\* From clean_text to the response of upload_document, upload_text and
\* create_document: 400 for an empty text, else the chunks with their
\* metadata, their embeddings (500 when the provider raises), and
\* add_documents, which raises (500) when an id is already stored.
Ingest(k, raw, filename, file_type, category, title) ==
    \E doc \in {clean_text(raw)} :
      \E doc_chunks \in {split_text_into_chunks(doc, settings_chunk_size,
                                                settings_chunk_overlap)} :
        IF Strip(doc) = <<>>
        THEN /\ last' = IngestResponse(k, 400, doc, filename, <<>>, <<>>, 0,
                                         None)
             /\ UNCHANGED <<embedding_model, collection>>
        ELSE /\ Cardinality(collection) + Len(doc_chunks) <= MaxStored
             /\ \E reads \in ClockReads(Len(doc_chunks) + 1),
                   out \in EncodeOutcomes(embedding_model) :
                   \E new \in {[i \in 1..Len(doc_chunks) |->
                                  StoredChunk(doc, doc_chunks, i - 1, filename,
                                              file_type, reads, category,
                                              title)]} :
                     LET chunk_ids == [i \in 1..Len(new) |-> new[i].id]
                         added == out.ok /\ \A i \in 1..Len(new) :
                                                new[i].id \notin StoredIds
                     IN  /\ embedding_model' = out.em
                         /\ collection' =
                               IF added
                               THEN collection
                                       \cup { new[i] : i \in 1..Len(new) }
                               ELSE collection
                         /\ last' = IngestResponse(k,
                               IF added THEN 200 ELSE 500, doc, filename,
                               chunk_ids,
                               IF out.ok
                               THEN <<"encode_documents", "add_documents">>
                               ELSE <<"encode_documents">>, 0, None)

\* One more request is served, of the MaxServed a run goes through.
Serve ==
    /\ served < MaxServed
    /\ served' = served + 1

\* POST /api/documents/upload with a text file; file_type is the content
\* type the client sent.
upload_document ==
    /\ Serve
    /\ \E raw \in Documents :
          Ingest("upload_document", raw, FileName("a", ".md"), "text/markdown",
                 None, None)
    /\ UNCHANGED <<pc, kind, args, firstUse>>
    /\ UNCHANGED <<relayVars, chunkerVars, pureVars>>

\* POST /api/documents/upload-text
upload_text ==
    /\ Serve
    /\ \E raw \in Documents,
          f \in {FileName("a", ""), FileName("b", ".txt")} :
          Ingest("upload_text", raw, TextFileName(f), "markdown", None, None)
    /\ UNCHANGED <<pc, kind, args, firstUse>>
    /\ UNCHANGED <<relayVars, chunkerVars, pureVars>>

\* POST /api/documents
create_document ==
    /\ Serve
    /\ \E raw \in Documents, t \in {Some("a")}, c \in {None} :
          Ingest("create_document", raw, FileName(Title(t), ".md"),
                 "markdown", Some(Get(c, "general")), Some(Title(t)))
    /\ UNCHANGED <<pc, kind, args, firstUse>>
    /\ UNCHANGED <<relayVars, chunkerVars, pureVars>>

\* VectorDB.delete_by_filename: the chunks it deletes.
ChunksOf(filename) == { c \in collection : c.filename = filename }

\* The removal methods of VectorDB: the chunks they leave in the
\* collection and the value they return (None for "-> None").
delete_documents(ids) ==
    [remaining |-> { c \in collection : c.id \notin ids }, returned |-> None]

delete_by_filename_only_counts(filename) ==
    [remaining |-> collection,
     returned |-> Some(Cardinality(ChunksOf(filename)))]

delete_by_filename(filename) ==
    [remaining |-> collection \ ChunksOf(filename),
     returned |-> Some(Cardinality(ChunksOf(filename)))]

reset == [remaining |-> {}, returned |-> None]

\* DELETE /api/documents/{filename}
delete_document ==
    /\ Serve
    /\ \E f \in {FileName("a", ".md"), FileName("b", ".txt"),
                 FileName("Untitled", ".md")} :
          LET deleted_count == Val(delete_by_filename(f).returned)
          IN  /\ collection' = delete_by_filename(f).remaining
              /\ last' = IngestResponse("delete_document",
                            IF deleted_count = 0 THEN 404 ELSE 200, <<>>, f,
                            <<>>, <<"delete_by_filename">>, deleted_count,
                            delete_by_filename(f).returned)
    /\ UNCHANGED <<embedding_model, pc, kind, args, firstUse>>
    /\ UNCHANGED <<relayVars, chunkerVars, pureVars>>

\* DELETE /api/documents/by-id/{doc_id}, with the id of a stored chunk or an
\* id that is not stored.
delete_document_by_id ==
    /\ Serve
    /\ \E doc_id \in StoredIds
                       \cup {create_document_id(NoFileName, 0, 0)} :
          /\ collection' = delete_documents({doc_id}).remaining
          /\ last' = IngestResponse("delete_document_by_id", 200, <<>>,
                                    NoFileName, <<doc_id>>,
                                    <<"delete_documents">>, 0,
                                    delete_documents({doc_id}).returned)
    /\ UNCHANGED <<embedding_model, pc, kind, args, firstUse>>
    /\ UNCHANGED <<relayVars, chunkerVars, pureVars>>

\* POST /api/documents/reset
reset_collection ==
    /\ Serve
    /\ collection' = reset.remaining
    /\ last' = IngestResponse("reset_collection", 200, <<>>, NoFileName, <<>>,
                              <<"reset">>, 0, reset.returned)
    /\ UNCHANGED <<embedding_model, pc, kind, args, firstUse>>
    /\ UNCHANGED <<relayVars, chunkerVars, pureVars>>

IngestNext ==
    \/ upload_document
    \/ upload_text
    \/ create_document
    \/ delete_document
    \/ delete_document_by_id
    \/ reset_collection

(***************************************************************************)
(* Calls of functions of their arguments only: one call, from its          *)
(* arguments to what it returns.                                           *)
(***************************************************************************)
NoCall == [fn |-> "none"]

NoResult == [returned |-> FALSE]

Returned(value) == [returned |-> TRUE, value |-> value]

PureAtRest == call = NoCall /\ result = NoResult

\* The model identifiers: settings.embedding_model is read from the
\* environment, so it is any string.
NameChars == {"e", "E", "5", "x"}

ModelNames == UNION { [1..n -> NameChars] : n \in 0..MaxName }

DocumentLists == UNION { [1..n -> {"d1", "d2"}] : n \in 0..MaxDocs }

EncodeCalls ==
    { [fn |-> "encode_query", model_name |-> m, input |-> q] :
         m \in ModelNames, q \in {"q1", "q2"} }
      \cup { [fn |-> "encode_documents", model_name |-> m, input |-> d] :
                m \in ModelNames, d \in DocumentLists }

EncodeInit == call \in EncodeCalls /\ result = NoResult

EncodeQuery ==
    /\ call.fn = "encode_query"
    /\ ~result.returned
    /\ result' = Returned(encode_query(call.model_name, call.input))
    /\ UNCHANGED call
    /\ UNCHANGED <<relayVars, serverVars, chunkerVars, ingestVars>>

EncodeDocuments ==
    /\ call.fn = "encode_documents"
    /\ ~result.returned
    /\ result' = Returned(encode_documents(call.model_name, call.input))
    /\ UNCHANGED call
    /\ UNCHANGED <<relayVars, serverVars, chunkerVars, ingestVars>>

EncodeNext == EncodeQuery \/ EncodeDocuments

\* The texts clean_text is called with.
CleanTexts ==
    { t \in UNION { [1..n -> { Run(ch, k) : ch \in Chars, k \in RunLengths }] :
                    n \in 0..MaxPieces } :
        \A i \in 1..(Len(t) - 1) : t[i].ch # t[i + 1].ch }

CleanInit ==
    /\ call \in { [fn |-> "clean_text", input |-> t] : t \in CleanTexts }
    /\ result = NoResult

CleanText ==
    /\ call.fn = "clean_text"
    /\ ~result.returned
    /\ result' = Returned(clean_text(call.input))
    /\ UNCHANGED call
    /\ UNCHANGED <<relayVars, serverVars, chunkerVars, ingestVars>>

CleanNext == CleanText

(***************************************************************************)
(* Specifications: the relay of one chat stream, the server with          *)
(* concurrent requests, the retrieval handlers over every request body,    *)
(* one call of the chunker, and the document handlers; the part a          *)
(* specification does not move stays at rest.                              *)
(***************************************************************************)
RelayAtRest ==
    /\ req_stream = TRUE
    /\ upstream = <<>>
    /\ linePos = 0
    /\ relay_pc = "start"
    /\ events = <<>>
    /\ fault = "none"
    /\ conn = "none"

ServerAtRest ==
    /\ embedding_model = [model |-> "None", embedding_dim |-> "None",
                          is_loaded |-> FALSE, status |-> "not_loaded",
                          error_message |-> "None", load_start_time |-> "None"]
    /\ collection = {}
    /\ pc = [r \in Reqs |-> "idle"]
    /\ kind = [r \in Reqs |-> "none"]
    /\ args = [r \in Reqs |-> NoArgs]
    /\ firstUse = [members |-> {}, loads |-> 0]
    /\ last = NoResponse

IngestAtRest == served = 0

RelayStart ==
    RelayInit /\ ServerAtRest /\ ChunkerAtRest /\ IngestAtRest /\ PureAtRest

ServerStart ==
    ServerInit /\ RelayAtRest /\ ChunkerAtRest /\ IngestAtRest /\ PureAtRest

ChunkerStart ==
    ChunkerInit /\ RelayAtRest /\ ServerAtRest /\ IngestAtRest /\ PureAtRest

\* The process has started: nothing is stored, the model is not loaded.
IngestStart ==
    ServerAtRest /\ RelayAtRest /\ ChunkerAtRest /\ IngestAtRest /\ PureAtRest

EncodeStart ==
    EncodeInit /\ RelayAtRest /\ ServerAtRest /\ ChunkerAtRest /\ IngestAtRest

SpecRelay == RelayStart /\ [][RelayNext]_vars

SpecCancel == RelayStart /\ [][CancelNext]_vars

GenerateStart ==
    /\ GenerateInit
    /\ ServerAtRest /\ ChunkerAtRest /\ IngestAtRest /\ PureAtRest

SpecGenerate == GenerateStart /\ [][GenerateNext]_vars

SpecServer == ServerStart /\ [][ServerNext]_vars

SpecRetrieval == ServerStart /\ [][RetrievalNext]_vars

SpecChunker == ChunkerStart /\ [][ChunkerNext]_vars

SpecIngest == IngestStart /\ [][IngestNext]_vars

SpecEncode == EncodeStart /\ [][EncodeNext]_vars

CleanStart ==
    CleanInit /\ RelayAtRest /\ ServerAtRest /\ ChunkerAtRest /\ IngestAtRest

SpecClean == CleanStart /\ [][CleanNext]_vars

(***************************************************************************)
(* Properties of the chat relay.                                           *)
(***************************************************************************)
IsDelta(l) ==
    /\ l.prefixed
    /\ l.data.form = "json" /\ l.data.top = "dict" /\ l.data.choices = "one"
    /\ l.data.choice0 = "dict" /\ l.data.delta = "dict" /\ l.data.content = "str"

IsDoneLine(l) == l.prefixed /\ l.data.form = "done"

\* The position of the first [DONE] line of a body, 0 when there is none.
FirstDone(body) ==
    IF \E i \in 1..Len(body) : IsDoneLine(body[i])
    THEN CHOOSE i \in 1..Len(body) :
            /\ IsDoneLine(body[i])
            /\ \A j \in 1..(i - 1) : ~IsDoneLine(body[j])
    ELSE 0

\* n content-delta lines, then [DONE], then anything.
DeltasThenDone(body) ==
    /\ FirstDone(body) > 0
    /\ \A j \in 1..(FirstDone(body) - 1) : IsDelta(body[j])

\* One content event per delta line, empty or not, in order.
RECURSIVE EveryDelta(_)
EveryDelta(ls) ==
    IF ls = <<>> THEN <<>>
    ELSE IF IsDelta(Head(ls))
         THEN <<ContentEvent(Head(ls).data.text)>> \o EveryDelta(Tail(ls))
         ELSE EveryDelta(Tail(ls))

\* One content event per delta line whose text is not empty, in order.
RECURSIVE NonEmptyDeltas(_)
NonEmptyDeltas(ls) ==
    IF ls = <<>> THEN <<>>
    ELSE IF IsDelta(Head(ls)) /\ Head(ls).data.text # ""
         THEN <<ContentEvent(Head(ls).data.text)>> \o NonEmptyDeltas(Tail(ls))
         ELSE NonEmptyDeltas(Tail(ls))

TransportFaults == {"refused", "timeout", "non2xx", "midstream"}

\* C1: whatever the inference server does, the client's event sequence holds
\* exactly one terminal event ([DONE] or an error event) once the stream is
\* over, and a terminal event is always the last event of the stream.
C1_OneTerminalEventLast ==
    /\ \A i \in 1..Len(events) : IsTerminal(events[i]) => i = Len(events)
    /\ relay_pc = "closed" =>
          /\ events # <<>>
          /\ IsTerminal(events[Len(events)])
    /\ (events # <<>> /\ IsTerminal(events[Len(events)])) => relay_pc = "closed"

\* The body was closed without [DONE] after at least one content event.
C1_Witness ==
    /\ relay_pc = "closed"
    /\ fault = "none"
    /\ req_stream
    /\ FirstDone(upstream) = 0
    /\ Len(events) >= 2
    /\ events[Len(events)] = DoneEvent

\* C5 as stated: n content-delta lines followed by [DONE] give exactly n
\* content events with the same texts in the same order, then one terminal
\* event and nothing else.
C5_EveryDeltaForwarded ==
    (relay_pc = "closed" /\ fault = "none" /\ req_stream /\ DeltasThenDone(upstream))
        => events = EveryDelta(SubSeq(upstream, 1, FirstDone(upstream) - 1))
                        \o <<DoneEvent>>

\* C5 amended: content-delta lines followed by [DONE] give one content event
\* per delta line whose text is not empty, with the same texts in the same
\* order, then exactly one terminal event and nothing else; a delta with an
\* empty text and the lines after [DONE] are not forwarded.
C5_NonEmptyDeltasForwarded ==
    (relay_pc = "closed" /\ fault = "none" /\ req_stream /\ DeltasThenDone(upstream))
        => events = NonEmptyDeltas(SubSeq(upstream, 1, FirstDone(upstream) - 1))
                        \o <<DoneEvent>>

\* Two deltas, [DONE], and one more delta after it.
C5_Witness ==
    /\ relay_pc = "closed"
    /\ fault = "none"
    /\ Len(upstream) = 3
    /\ FirstDone(upstream) = 2
    /\ IsDelta(upstream[1]) /\ upstream[1].data.text = "a"
    /\ IsDelta(upstream[3]) /\ upstream[3].data.text = "b"
    /\ events = <<ContentEvent("a"), DoneEvent>>

\* C6: a line that cannot be decoded as a content delta produces no event
\* and does not abort the stream: without a transport failure the stream
\* carries the deltas before [DONE] (or the end of the body) and ends with
\* the normal completion event.
C6_UndecodableLineSkipped ==
    (relay_pc = "closed" /\ req_stream /\ fault \notin TransportFaults)
        => events = NonEmptyDeltas(SubSeq(upstream, 1,
                        IF FirstDone(upstream) > 0 THEN FirstDone(upstream) - 1
                        ELSE Len(upstream)))
                    \o <<DoneEvent>>

\* C7: a transport error before the first line or after k content events
\* leaves the client with exactly those k content events followed by one
\* error event; no content event and no [DONE] follows it.
C7_TransportErrorEndsStream ==
    (relay_pc = "closed" /\ fault \in TransportFaults)
        => events = NonEmptyDeltas(SubSeq(upstream, 1, linePos)) \o <<ErrorEvent>>

\* The connection broke after one content event was forwarded.
C7_Witness ==
    /\ relay_pc = "closed"
    /\ fault = "midstream"
    /\ linePos < Len(upstream)
    /\ events = <<ContentEvent("a"), ErrorEvent>>

(***************************************************************************)
(* Properties of the embedding provider and of the retrieval handlers.     *)
(***************************************************************************)

\* C2: once the provider is in state error it stays in error: no later
\* encode call starts a new load attempt.
C2_ErrorIsTerminal ==
    [][embedding_model.status = "error" => embedding_model'.status = "error"]_vars

\* C3: the requests issued while the provider is still not_loaded execute
\* one load sequence between them, whatever its outcome.
C3_OneLoadForFirstUse == firstUse.loads <= 1

\* C4: while a request is inside the model load (state downloading or
\* loading), a waiting model-status request can be served.
C4_StatusServedDuringLoad ==
    \A r \in Reqs :
        (/\ kind[r] = "status"
         /\ pc[r] = "pending"
         /\ embedding_model.status \in {"downloading", "loading"})
            => ENABLED ModelStatus(r)

\* The position of the most recent user message of a conversation.
LatestUserIndex(ms) ==
    CHOOSE i \in 1..Len(ms) :
        /\ ms[i].role = "user"
        /\ \A j \in (i + 1)..Len(ms) : ms[j].role # "user"

\* C8: when retrieval yields a non-empty context, the forwarded conversation
\* differs from the request's only at the most recent user message, whose
\* content becomes the RAG prompt built from it; every other message keeps
\* its role, content and position.
C8_OnlyLatestUserMessageReplaced ==
    (last.kind = "chat" /\ last.http = 200 /\ last.context # <<>>) =>
        LET ms == last.args.messages
            p == LatestUserIndex(ms)
        IN  /\ Len(last.forwarded) = Len(ms)
            /\ \A i \in 1..Len(ms) : i # p => last.forwarded[i] = ms[i]
            /\ last.forwarded[p] =
                  Message("user", create_rag_prompt(last.context, ms[p].content))

\* C9: a retrieval handler that runs on an empty collection returns in one
\* step with an empty context, calls neither the embedding provider nor the
\* store's query, and leaves every field of the provider as it was.
C9_EmptyStoreNoEmbedding ==
    [][\A r \in Reqs :
          (/\ collection = {}
           /\ kind[r] \in {"rag", "chat"}
           /\ pc[r] # "idle"
           /\ pc'[r] # pc[r])
             => /\ pc'[r] = "idle"
                /\ last'.req = r
                /\ last'.context = <<>>
                /\ last'.calls \in {<<>>, <<"count">>}
                /\ embedding_model' = embedding_model]_vars

\* A RAG query was answered on an empty collection, the model not loaded.
C9_Witness ==
    /\ collection = {}
    /\ last.kind = "rag"
    /\ last.http = 200
    /\ last.calls = <<"count">>
    /\ last.context = <<>>
    /\ embedding_model.status = "not_loaded"

\* C10: on a non-empty store the store is queried with n_results equal to
\* the top_k the request supplies, and a returned item is in the result if
\* and only if its similarity is >= the threshold the request supplies.
C10_SuppliedValuesUsed ==
    (last.kind = "rag" /\ last.http = 200 /\ last.count > 0) =>
        LET a == last.args
            q == Vector(EncodeQueryText(a.query))
            results == VectorDBQuery(q, Val(last.n_results), None)
        IN  /\ a.top_k # None => last.n_results = a.top_k
            /\ a.threshold # None =>
                  \A i \in 1..Len(results) :
                      (\E j \in 1..Len(last.context) :
                            last.context[j].content = results[i].id)
                        <=> Similarity200(Dist10(results[i].emb, q))
                                >= Val(a.threshold)

\* C11: every item a retrieval returns has a similarity >= the threshold in
\* effect and >= the threshold the request supplies, the items come in
\* non-increasing order of score, and a supplied threshold above 1 gives an
\* empty result.
C11_ThresholdFiltersInOrder ==
    (last.kind \in {"rag", "chat"} /\ last.http = 200) =>
        LET items == last.context
            t == last.args.threshold
        IN  /\ \A i \in 1..Len(items) :
                   /\ items[i].score >= Val(last.threshold)
                   /\ (last.kind = "rag" /\ t # None) =>
                          items[i].score >= Val(t)
            /\ \A i \in 1..Len(items) : \A j \in i..Len(items) :
                   items[i].score >= items[j].score
            /\ (last.kind = "rag" /\ t # None /\ Val(t) > 200) =>
                   items = <<>>

\* A RAG query with a supplied threshold returned two items of different
\* scores.
C11_Witness ==
    /\ last.kind = "rag"
    /\ last.http = 200
    /\ last.args.threshold # None
    /\ Len(last.context) >= 2
    /\ last.context[1].score > last.context[2].score

\* C12 as stated: every item a retrieval returns has a score in [0, 1],
\* whatever threshold the request supplies.
C12_ScoreInUnitInterval ==
    (last.kind \in {"rag", "chat"} /\ last.http = 200) =>
        \A i \in 1..Len(last.context) :
            last.context[i].score \in 0..200

\* C12, amended: every item a retrieval returns has a score in [-1, 1], and
\* in [0, 1] when the threshold in effect is not negative.
C12_ScoreInRange ==
    (last.kind \in {"rag", "chat"} /\ last.http = 200) =>
        \A i \in 1..Len(last.context) :
            /\ last.context[i].score \in -200..200
            /\ Val(last.threshold) >= 0 =>
                   last.context[i].score \in 0..200

\* A RAG query with a negative threshold returned an item of negative score.
C12_Witness ==
    /\ last.kind = "rag"
    /\ last.http = 200
    /\ last.args.threshold # None
    /\ Val(last.args.threshold) < 0
    /\ \E i \in 1..Len(last.context) : last.context[i].score < 0

\* C13: a chat request whose retrieval yields no context item is answered
\* with the stream of the request's own conversation, and a chat request
\* fails only for want of a user message or before the store is queried.
C13_NoContextForwardsUnchanged ==
    last.kind = "chat" =>
        /\ (last.http = 200 /\ last.context = <<>>) =>
               /\ last.forwarded = last.args.messages
               /\ last.payload = MessagesDict(last.args.messages)
        /\ last.http # 200 =>
               \/ last.http = 400 /\ UserMessages(last.args.messages) = <<>>
               \/ /\ last.http = 500
                  /\ \A i \in 1..Len(last.calls) : last.calls[i] # "query"

\* The store was queried for a chat request and no item cleared the
\* threshold.
C13_Witness ==
    /\ last.kind = "chat"
    /\ last.http = 200
    /\ last.count > 0
    /\ \E i \in 1..Len(last.calls) : last.calls[i] = "query"
    /\ last.context = <<>>
    /\ last.forwarded = last.args.messages

\* C14: the list sent to the inference server starts with a system message:
\* the forwarded conversation itself when that starts with a system
\* message, otherwise the system prompt followed by the forwarded
\* conversation; an empty conversation becomes the system prompt alone.
C14_SystemMessageFirst ==
    /\ MessagesDict(<<>>) = <<SystemPrompt>>
    /\ (last.kind = "chat" /\ last.http = 200) =>
          LET ms == last.forwarded
              sent == last.payload
          IN  /\ sent[1].role = "system"
              /\ IF ms[1].role = "system"
                 THEN sent = ms
                 ELSE /\ Len(sent) = Len(ms) + 1
                      /\ sent[1] = SystemPrompt
                      /\ \A i \in 1..Len(ms) : sent[i + 1] = ms[i]

\* A conversation that starts with its own system message was sent as it is.
C14_Witness ==
    /\ last.kind = "chat"
    /\ last.http = 200
    /\ Len(last.forwarded) = 2
    /\ last.forwarded[1].role = "system"
    /\ last.payload = last.forwarded

\* The text of the request: the query of a RAG query, the question of the
\* latest user message of a chat.
HasEmptyText(k, a) ==
    IF k = "rag" THEN a.query = ""
    ELSE /\ UserMessages(a.messages) # <<>>
         /\ LatestMessage(a.messages).question = ""

\* C20: a RAG query or chat question whose text is empty is rejected with a
\* 4xx status, and neither the embedding provider nor the store is called.
C20_EmptyTextRejected ==
    (last.kind \in {"rag", "chat"} /\ HasEmptyText(last.kind, last.args)) =>
        /\ last.http \in 400..499
        /\ last.calls = <<>>

(***************************************************************************)
(* Properties of the chunker.                                              *)
(***************************************************************************)
\* C15: a call with len(text) <= chunk_size returns exactly one chunk, the
\* text without its leading and trailing whitespace.
C15_ShortTextOneTrimmedChunk ==
    (split_pc = "returned" /\ TextLen(text) <= chunk_size) =>
        chunks = <<Strip(text)>>

\* The character at index p of t.
CharAt(t, p) == Slice(t, p, p + 1)[1].ch

\* The trimmed windows that are not empty, in the order of the windows.
WindowChunks(t, ws) ==
    SelectSeq([i \in 1..Len(ws) |-> Strip(Slice(t, ws[i].start, ws[i].end))],
              LAMBDA c : c # <<>>)

\* C16: the first window starts at 0, each window starts at or before the
\* end of the one before it, the loop never comes back to the start of a
\* window it has cut, and when the call returns the last window reaches the
\* end of the text, every character that is not whitespace lies in a
\* window, and the chunks are the trimmed windows in the order of the text.
C16_WindowsLeaveNoGap ==
    /\ windows # <<>> => windows[1].start = 0
    /\ \A i \in 2..Len(windows) : windows[i].start <= windows[i - 1].end
    /\ (split_pc = "loop" /\ start < TextLen(text)) =>
           \A i \in 1..Len(windows) : windows[i].start # start
    /\ split_pc = "returned" =>
           /\ windows[Len(windows)].end >= TextLen(text)
           /\ \A p \in 0..(TextLen(text) - 1) :
                  ~IsSpace(CharAt(text, p)) =>
                      \E i \in 1..Len(windows) :
                          windows[i].start <= p /\ p < windows[i].end
           /\ \A i \in 2..Len(windows) :
                  windows[i].start >= windows[i - 1].start
           /\ TextLen(text) > chunk_size =>
                  chunks = WindowChunks(text, windows)

(***************************************************************************)
(* Properties of the document handlers.                                    *)
(***************************************************************************)
Uploads == {"upload_document", "upload_text", "create_document"}

\* The stored chunk with the given id.
ChunkWithId(id) == CHOOSE c \in collection : c.id = id

\* The chunks of the upload just answered are stored with chunk_index 0, 1,
\* ... in order, the number of chunks as total_chunks on each, and the text
\* of the document as original_content of the first and of no other.
UploadedInOrder ==
    \A i \in 1..Len(last.chunk_ids) :
        /\ last.chunk_ids[i] \in StoredIds
        /\ LET c == ChunkWithId(last.chunk_ids[i])
           IN  /\ c.chunk_index = i - 1
               /\ c.total_chunks = Len(last.chunk_ids)
               /\ c.original_content =
                     IF i = 1 THEN Some(last.doc) ELSE None

HasNoSentenceEnd(t) == \A i \in 1..Len(t) : ~IsSentenceEnd(t[i].ch)

C18_OneFirstChunkPerFilename ==
    \A f \in { c.filename : c \in collection } :
        /\ Cardinality({ c \in ChunksOf(f) : c.chunk_index = 0 }) = 1
        /\ \A c \in ChunksOf(f) :
               c.original_content # None <=> c.chunk_index = 0

\* C19: the ids an upload gives to its chunks differ from each other and
\* from every stored id, and add_documents does not raise.
C19_IdsNeverCollide ==
    [][(last'.kind \in Uploads /\ served' # served) =>
          /\ \A i \in 1..Len(last'.chunk_ids) :
                 /\ last'.chunk_ids[i] \notin StoredIds
                 /\ \A j \in 1..Len(last'.chunk_ids) :
                        i # j => last'.chunk_ids[i] # last'.chunk_ids[j]
          /\ last'.calls = <<"encode_documents", "add_documents">> =>
                 last'.http = 200]_vars

(***************************************************************************)
(* Properties of the provider's life cycle.                                *)
(***************************************************************************)
StatusEdges ==
    { <<"not_loaded", "downloading">>, <<"downloading", "loading">>,
      <<"loading", "ready">>, <<"not_loaded", "error">>,
      <<"downloading", "error">>, <<"loading", "error">> }

\* The step is a handler entering encode(): it goes from waiting for the
\* loop into the load.
EntersEncode ==
    \E r \in Reqs : /\ pc[r] = "pending"
                    /\ kind[r] \in {"rag", "chat"}
                    /\ pc'[r] = "downloading"

\* C21: every change of the provider's state follows one of the edges
\* not_loaded -> downloading -> loading -> ready or {not_loaded,
\* downloading, loading} -> error, and the state leaves not_loaded only in
\* an encode call.
C21_OnlyListedEdges ==
    [][embedding_model'.status # embedding_model.status =>
          /\ <<embedding_model.status, embedding_model'.status>>
                 \in StatusEdges
          /\ embedding_model.status = "not_loaded" => EntersEncode]_vars

\* C22: once the provider is ready, no call changes its state, loads the
\* model again or changes the embedding dimension.
C22_ReadyIsStable ==
    [][embedding_model.status = "ready" =>
          /\ embedding_model'.status = "ready"
          /\ embedding_model'.is_loaded
          /\ embedding_model'.model = embedding_model.model
          /\ embedding_model'.embedding_dim = embedding_model.embedding_dim
          /\ embedding_model.embedding_dim = "dim"]_vars

\* An encode call on the ready provider has failed, and a status call has
\* been answered by the ready provider.
C22_Witness ==
    /\ embedding_model.status = "ready"
    /\ last.http = 500
    /\ last.calls = <<"count", "encode_query", "encode">>
    /\ \E r \in Reqs : kind[r] = "status" /\ pc[r] = "pending"

Removals == {"delete_document", "delete_document_by_id", "reset_collection"}

\* The step is a removal and the chunks it aims at are gone afterwards,
\* every other chunk being kept.
RemovesTargets ==
    /\ collection' \subseteq collection
    /\ last'.kind = "delete_document" =>
           /\ \A c \in collection' : c.filename # last'.filename
           /\ \A c \in collection \ collection' :
                  c.filename = last'.filename
    /\ last'.kind = "delete_document_by_id" =>
           /\ \A c \in collection' : c.id # last'.chunk_ids[1]
           /\ \A c \in collection \ collection' :
                  c.id = last'.chunk_ids[1]
    /\ last'.kind = "reset_collection" => collection' = {}

Removed == Cardinality(collection) - Cardinality(collection')

\* C24 as stated: each removal removes the chunks it aims at and returns
\* the number of chunks removed, the count before minus the count after.
C24_RemovalsReportCount ==
    [][(served' # served /\ last'.kind \in Removals) =>
          /\ RemovesTargets
          /\ last'.returned = Some(Removed)]_vars

\* C24, amended: each removal removes the chunks it aims at;
\* delete_by_filename returns the number of chunks removed, the count
\* before minus the count after, and delete_documents and reset return
\* nothing.
C24_OnlyDeleteByFilenameReports ==
    [][(served' # served /\ last'.kind \in Removals) =>
          /\ RemovesTargets
          /\ last'.returned =
                 IF last'.kind = "delete_document" THEN Some(Removed)
                 ELSE None]_vars

\* A document of three chunks was deleted by filename while another
\* document stays stored.
C24_Witness ==
    /\ last.kind = "delete_document"
    /\ last.returned = Some(3)
    /\ Cardinality(collection) = 1

(***************************************************************************)
(* Properties of the prefixes of encode_query and encode_documents.        *)
(***************************************************************************)
\* The identifier, lower-cased, contains "e5": an e of either case is
\* followed by a 5.
LowerContainsE5(name) ==
    \E i \in 1..(Len(name) - 1) : name[i] \in {"e", "E"} /\ name[i + 1] = "5"

\* C25: encode_query hands "query: " + q to encode and encode_documents
\* "passage: " + doc for each document, in order, exactly when the
\* lower-cased model identifier contains "e5"; otherwise they hand over
\* their input unchanged.
C25_PrefixOnlyForE5 ==
    result.returned =>
        LET e5 == LowerContainsE5(call.model_name)
        IN  IF call.fn = "encode_query"
            THEN result.value =
                    <<Text(IF e5 THEN "query: " ELSE "", call.input)>>
            ELSE /\ Len(result.value) = Len(call.input)
                 /\ \A i \in 1..Len(result.value) :
                        result.value[i] =
                           Text(IF e5 THEN "passage: " ELSE "", call.input[i])

\* Two documents were encoded under an identifier that has "e5" in upper
\* case only.
C25_Witness ==
    /\ call.fn = "encode_documents"
    /\ call.model_name = <<"x", "E", "5">>
    /\ result.returned
    /\ result.value = <<Text("passage: ", "d2"), Text("passage: ", "d1")>>

(***************************************************************************)
(* Properties of the loop of split_text_into_chunks.                       *)
(***************************************************************************)
\* The character at index p lies, at least in part, in the last 20% of the
\* window of size characters that starts at s.
InLastFifth(p, s, size) ==
    /\ p < s + size
    /\ 5 * (p + 1) > 5 * (s + size) - size

\* The sentence ends of the text in the last 20% of that window, past s.
SentenceEndsInLastFifth(t, s, size) ==
    { p \in 0..(TextLen(t) - 1) :
        /\ InLastFifth(p, s, size)
        /\ p > s
        /\ IsSentenceEnd(CharAt(t, p)) }

Greatest(S) == CHOOSE p \in S : \A q \in S : q <= p

\* Where the window that starts at s ends.
ProcedureEnd(t, s, size) ==
    IF s + size < TextLen(t) /\ SentenceEndsInLastFifth(t, s, size) # {}
    THEN Greatest(SentenceEndsInLastFifth(t, s, size)) + 1
    ELSE s + size

\* The characters of t at lo..hi are those of the text c.
SameCharacters(c, t, lo, hi) ==
    /\ TextLen(c) = hi - lo + 1
    /\ \A i \in 0..(hi - lo) : CharAt(c, i) = CharAt(t, lo + i)

\* The indexes in [s, e) of the characters of t that are not whitespace.
Inked(t, s, e) ==
    { p \in s..(Min2(e, TextLen(t)) - 1) : ~IsSpace(CharAt(t, p)) }

Least(S) == CHOOSE p \in S : \A q \in S : p <= q

\* C26: for a text longer than max_size the first window starts at 0; a
\* window that starts at s ends just after the right-most sentence end of
\* its last 20% past s when its raw end s + max_size is before the end of
\* the text and there is one, else at its raw end; the next window starts
\* overlap before that end, unless the raw end reaches the end of the
\* text, and then the window is the last; each chunk is the trimmed
\* window, and an empty one is dropped.
C26_BoundariesFollowProcedure ==
    [][/\ (split_pc = "called" /\ split_pc' = "loop") =>
              start' = 0 /\ windows' = <<>> /\ chunks' = <<>>
       /\ (split_pc = "loop" /\ windows' # windows) =>
              LET e == ProcedureEnd(text, start, chunk_size)
                  inked == Inked(text, start, e)
              IN  /\ windows' = Append(windows, Window(start, e))
                  /\ start' = IF start + chunk_size < TextLen(text)
                              THEN e - chunk_overlap ELSE e
                  /\ start + chunk_size >= TextLen(text) =>
                         start' >= TextLen(text)
                  /\ IF inked = {} THEN chunks' = chunks
                     ELSE /\ Len(chunks') = Len(chunks) + 1
                          /\ SubSeq(chunks', 1, Len(chunks)) = chunks
                          /\ SameCharacters(chunks'[Len(chunks')], text,
                                            Least(inked), Greatest(inked))]_vars

\* A call has returned after a window cut at a sentence end, a step back by
\* the overlap, and a window of whitespace that gave no chunk.
C26_Witness ==
    /\ split_pc = "returned"
    /\ chunk_overlap > 0
    /\ Len(windows) >= 3
    /\ Len(chunks) < Len(windows)
    /\ \E i \in 1..(Len(windows) - 1) :
           /\ windows[i].end < windows[i].start + chunk_size
           /\ IsSentenceEnd(CharAt(text, windows[i].end - 1))
           /\ windows[i + 1].start = windows[i].end - chunk_overlap

\* C27: from one iteration of the loop to the next the window start
\* strictly increases and is never negative, so that the loop ends.
C27_StartAdvances ==
    [][(split_pc = "loop" /\ windows' # windows) =>
          start' > start /\ start' >= 0]_vars

(***************************************************************************)
(* Properties of the /generate relay.                                      *)
(***************************************************************************)
TerminalAt(es) == { i \in 1..Len(es) : IsTerminal(es[i]) }

\* C28: a stream of the /generate relay that is over holds one terminal
\* event, the done event or an error event, and it is its last event,
\* whatever the inference server did.
C28_GenerateEndsWithOneTerminal ==
    relay_pc = "closed" => TerminalAt(events) = {Len(events)} /\ events # <<>>

(***************************************************************************)
(* Properties of get_status.                                               *)
(***************************************************************************)
\* The record get_status returns agrees with the state of the provider.
StatusConsistent ==
    /\ get_status.is_ready <=> get_status.status = "ready"
    /\ get_status.error # "None" <=> get_status.status = "error"
    /\ get_status.elapsed_seconds # "None" =>
           get_status.status \in {"downloading", "loading"}

\* C29: in every state of the provider the record get_status returns is
\* consistent with it (is_ready exactly when ready, an error exactly when
\* in error, elapsed_seconds only while downloading or loading), and
\* answering a status request changes no field of the provider: the
\* record just returned is still the one the provider would return.
C29_StatusConsistentAndPure ==
    /\ StatusConsistent
    /\ last.kind = "status" => last.status = get_status

(***************************************************************************)
(* Properties of clean_text.                                               *)
(***************************************************************************)
\* C30: the text clean_text returns has no run of more than two newlines,
\* and cleaning it again changes nothing.
C30_AtMostTwoNewlines ==
    result.returned =>
        /\ \A i \in 1..Len(result.value) :
               result.value[i].ch = "\n" => result.value[i].n <= 2
        /\ clean_text(result.value) = result.value

====
